---- MODULE Spec2Model ----
(***************************************************************************)
(* Wallet slot store, legacy migration, pool allocation, the wallet        *)
(* manager and the limit order service of the trading bot                  *)
(* (services/data_manager.py, services/wallet_manager.py, bot_modular.py,  *)
(* services/limit_order_service.py).                                       *)
(*                                                                         *)
(* Python dicts are functions whose DOMAIN is the set of keys present.     *)
(* A profile (one value of user_wallets) is a record; the presence of the  *)
(* keys 'wallets' and 'wallet_slots' is carried by has_wallets/has_slots.  *)
(* Timestamps are abstracted to "ts".  Two references to one dict object   *)
(* (wallet_slots['wallet1']['chains'] and '_old_wallets' after a           *)
(* migration) are carried by the profile field shared.                     *)
(***************************************************************************)
EXTENDS Integers, Sequences, FiniteSets, TLC

VARIABLES
    user_wallets,   \* DataManager.user_wallets: the in-memory store
    disk,           \* the last document written completely to user_wallets.json
    torn,           \* the file holds an unfinished rewrite of that document
    admin_channel,  \* the messages sent to the notification channel
    returned,       \* what the last call returned to its caller
    args,           \* the arguments of the last call of assign_wallet_to_user,
                    \* get_wallet_private_key or set_wallet_label
    calls,          \* in-flight TradingBotModular.create_wallet handlers
    assigned_log,   \* history: every <<chain, address, user, slot>> a pool address was given to
    legacy0,        \* history: the legacy 'wallets' map each user started with
    migrations,     \* history: number of migrations run per user
    last,           \* history: the entry point that ran last
    derive_log,     \* history: the derivation calls, with input, result and store
    orders,         \* LimitOrderService.orders: user -> list of orders
    orders_file,    \* the document in limit_orders.json
    now,            \* int(datetime.datetime.now().timestamp()): the clock, in seconds
    order_count,    \* history: number of orders created so far
    ops             \* number of handler invocations dispatched so far

vars == <<user_wallets, disk, torn, admin_channel, returned, args, calls, assigned_log,
          legacy0, migrations, last, derive_log, orders, orders_file,
          now, order_count, ops>>

----------------------------------------------------------------------------
(* Bounds *)

NumUsers == 2
PoolSize == 2
NumCalls == 2
NumLegacy == 1
MaxOps == 2
MaxOrderOps == 4
MaxTime == 1

(* Program constants *)

max_wallet_slots_per_user == 3
MaxLabelLen == 30

None == "None"
NoLabel == <<"None">>

Users == 1..NumUsers
Chains == {"SOL", "ETH"}
\* the networks derive_address_from_seed supports: the pool chains, STACKS
\* and BSC
Networks == Chains \cup {"STACKS", "BSC"}
WalletNames == <<"wallet1", "wallet2", "wallet3", "wallet4", "wallet5", "wallet6">>
WalletName(i) == WalletNames[i]
ConfiguredSlots == {WalletName(i) : i \in 1..max_wallet_slots_per_user}
ForeignSlot == WalletName(max_wallet_slots_per_user + 1)
SlotNames == ConfiguredSlots \cup {ForeignSlot}
\* the phrases Bip39SeedGenerator accepts: mnemonics of 12, 15, 18, 21 or 24
\* words with a valid checksum
ValidSeeds == {"seedA", "seedB", "seed15"}

\* len(seed_phrase.split()); "bad" has twelve words and a wrong checksum
word_count(seed_phrase) ==
    CASE seed_phrase = "seedA" -> 12
      [] seed_phrase = "seedB" -> 24
      [] seed_phrase = "seed15" -> 15
      [] OTHER -> 12

\* the slot names the handlers are called with: the first two configured
\* slots and a name outside the configured ones (slot names reach the
\* handlers inside callback data)
SlotInputs == {WalletName(1), WalletName(2), ForeignSlot}

\* <<network, slot_name, phrase generate_seed_phrase returns>> of
\* create_wallet: automatic and named slots, a name outside the configured
\* slots, a second phrase, a failed seed generation, an unsupported network,
\* the network without an address encoding
CreateArgs ==
    {<<"SOL", None, "seedA">>, <<"SOL", WalletName(1), "seedA">>,
     <<"STACKS", WalletName(2), "seedA">>, <<"SOL", ForeignSlot, "seedA">>,
     <<"SOL", WalletName(1), "seedB">>, <<"SOL", WalletName(1), None>>,
     <<"DOGE", None, "seedA">>}

\* <<network, seed_phrase, slot_name>> of import_wallet, one of them a phrase
\* the derivation rejects, one a mnemonic of fifteen words
ImportArgs ==
    {<<"ETH", "seed15", None>>, <<"SOL", "seedA", WalletName(1)>>,
     <<"SOL", "bad", WalletName(1)>>}

\* <<network, slot_name>> of get_wallet_private_key
KeyArgs ==
    {<<"SOL", None>>, <<"STACKS", WalletName(2)>>}

\* <<network, slot_name>> of assign_wallet_to_user
AssignArgs ==
    {<<"SOL", None>>, <<"ETH", None>>, <<"SOL", WalletName(2)>>,
     <<"SOL", ForeignSlot>>}

\* a segment of a derivation path: a number with or without a trailing ',
\* or the empty text between two slashes
Segment(low, hardened) == [empty |-> FALSE, high |-> 0, low |-> low, hardened |-> hardened]
BigSegment == [empty |-> FALSE, high |-> 1, low |-> 0, hardened |-> TRUE]
EmptySegment == [empty |-> TRUE, high |-> 0, low |-> 0, hardened |-> FALSE]

\* path text: whether it starts with m/, and its segments after the m/
Path(starts_with_m, segments) == [starts_with_m |-> starts_with_m, segments |-> segments]

\* the paths _ed25519_derive_path is called with: the Solana path
\* m/44'/501'/0'/0', m/44'/501'/1'/0', paths with a segment that is not
\* hardened, a path without m/, a path with an empty segment and a path
\* with the segment 2147483648'
SolanaPath ==
    Path(TRUE, <<Segment(44, TRUE), Segment(501, TRUE), Segment(0, TRUE), Segment(0, TRUE)>>)

Paths ==
    {SolanaPath,
     Path(TRUE, <<Segment(44, TRUE), Segment(501, TRUE), Segment(1, TRUE), Segment(0, TRUE)>>),
     Path(TRUE, <<Segment(44, TRUE), Segment(501, TRUE), Segment(0, TRUE), Segment(0, FALSE)>>),
     Path(TRUE, <<Segment(44, FALSE), Segment(501, TRUE)>>),
     Path(FALSE, <<Segment(44, TRUE), Segment(501, TRUE)>>),
     Path(TRUE, <<Segment(44, TRUE), EmptySegment, Segment(501, TRUE)>>),
     Path(TRUE, <<Segment(44, TRUE), BigSegment>>)}

\* <<seed_phrase, network>> of derive_address_from_seed
DeriveArgs ==
    ({"seedA"} \X (Networks \cup {"DOGE"}))
    \cup {<<"seedB", "ETH">>, <<"seedB", "BSC">>, <<"bad", "SOL">>}

\* <<path, seed_phrase>> of _ed25519_derive_path
PathArgs ==
    (Paths \X {"seedA"}) \cup {<<SolanaPath, "seedB">>}

LongLabel == [i \in 1..(MaxLabelLen + 1) |-> "x"]
Labels == {<<>>, <<"C", "l", "e", "a", "r">>, LongLabel}

\* <<slot_name, label>> of set_wallet_label
LabelArgs == ({WalletName(1)} \X Labels) \cup {<<ForeignSlot, LongLabel>>}

----------------------------------------------------------------------------
(* Dict helpers *)

EmptyMap == <<>>

Put(f, k, v) == [x \in (DOMAIN f) \cup {k} |-> IF x = k THEN v ELSE f[x]]

Remove(f, k) == [x \in (DOMAIN f) \ {k} |-> f[x]]

----------------------------------------------------------------------------
(* Pool source and derivation *)

PoolEntry(network, i) ==
    [address |-> <<"pool", network, i>>,
     private_key |-> <<"poolkey", network, i>>,
     derivation_path |-> "csv",
     seed_phrase |-> None,
     imported |-> FALSE]

Pool(network) == [i \in 1..PoolSize |-> PoolEntry(network, i)]

PoolAddresses(network) == {Pool(network)[i].address : i \in 1..PoolSize}

EmptySlot(isp) ==
    [label |-> NoLabel, created_at |-> None, is_primary |-> isp, chains |-> EmptyMap]

EmptyProfile ==
    [has_wallets |-> FALSE, wallets |-> EmptyMap,
     has_slots |-> FALSE, wallet_slots |-> EmptyMap,
     primary_wallet |-> None,
     old_wallets |-> EmptyMap, migrated |-> FALSE, shared |-> FALSE]

InitialSlots(first_primary) ==
    [s \in ConfiguredSlots |-> EmptySlot(first_primary /\ s = WalletName(1))]

----------------------------------------------------------------------------
(* DataManager *)

load_user_wallets(d) ==
    [u \in DOMAIN d |-> [d[u] EXCEPT !.shared = FALSE]]

\* load_user_wallets on the file as it is: json.load raises on an unfinished
\* document and the handler of the exception returns {}
read_document(d, t) ==
    IF t THEN EmptyMap ELSE load_user_wallets(d)

save_user_wallets(uw) ==
    [u \in DOMAIN uw |-> [uw[u] EXCEPT !.shared = FALSE]]

needs_migration(uw, u) ==
    /\ u \in DOMAIN uw
    /\ uw[u].has_wallets
    /\ ~uw[u].has_slots

\* variant: the migration leaves the 'wallets' key in the profile
migrate_user_data_keeps_wallets(uw, u) ==
    IF u \notin DOMAIN uw THEN uw
    ELSE IF ~uw[u].has_wallets THEN uw
    ELSE LET user_data == uw[u]
             slots == [s \in ConfiguredSlots |->
                         IF s = WalletName(1)
                         THEN [label |-> NoLabel, created_at |-> "ts",
                               is_primary |-> TRUE, chains |-> user_data.wallets]
                         ELSE EmptySlot(FALSE)]
             new_data == [has_wallets |-> TRUE, wallets |-> user_data.wallets,
                          has_slots |-> TRUE, wallet_slots |-> slots,
                          primary_wallet |-> WalletName(1),
                          old_wallets |-> user_data.wallets,
                          migrated |-> TRUE, shared |-> TRUE]
         IN  [uw EXCEPT ![u] = new_data]

\* variant: the legacy wallets go to the next slot and to the backup only
migrate_user_data_into_wallet2(uw, u) ==
    IF u \notin DOMAIN uw THEN uw
    ELSE IF ~uw[u].has_wallets THEN uw
    ELSE LET user_data == uw[u]
             slots == [s \in ConfiguredSlots |->
                         IF s = WalletName(2)
                         THEN [label |-> NoLabel, created_at |-> "ts",
                               is_primary |-> FALSE, chains |-> user_data.wallets]
                         ELSE EmptySlot(s = WalletName(1))]
             new_data == [has_wallets |-> FALSE, wallets |-> EmptyMap,
                          has_slots |-> TRUE, wallet_slots |-> slots,
                          primary_wallet |-> WalletName(1),
                          old_wallets |-> user_data.wallets,
                          migrated |-> TRUE, shared |-> TRUE]
         IN  [uw EXCEPT ![u] = new_data]

migrate_user_data(uw, u) ==
    IF u \notin DOMAIN uw THEN uw
    ELSE IF ~uw[u].has_wallets THEN uw
    ELSE LET user_data == uw[u]
             slots == [s \in ConfiguredSlots |->
                         IF s = WalletName(1)
                         THEN [label |-> NoLabel, created_at |-> "ts",
                               is_primary |-> TRUE, chains |-> user_data.wallets]
                         ELSE EmptySlot(FALSE)]
             new_data == [has_wallets |-> FALSE, wallets |-> EmptyMap,
                          has_slots |-> TRUE, wallet_slots |-> slots,
                          primary_wallet |-> WalletName(1),
                          old_wallets |-> user_data.wallets,
                          migrated |-> TRUE, shared |-> TRUE]
         IN  [uw EXCEPT ![u] = new_data]

\* the store after get_user_data(u): migrated first when needed
get_user_data(uw, u) ==
    IF needs_migration(uw, u) THEN migrate_user_data(uw, u) ELSE uw

\* the dictionary get_user_data returns: the stored profile, or a fresh {}
user_data_of(uw, u) ==
    IF u \in DOMAIN uw THEN uw[u] ELSE EmptyProfile

\* "not user_data": the dictionary is empty
is_empty(user_data) ==
    /\ ~user_data.has_wallets
    /\ ~user_data.has_slots
    /\ user_data.primary_wallet = None
    /\ ~user_data.migrated

set_user_data(uw, u, data) ==
    [x \in (DOMAIN uw) \cup {u} |-> IF x = u THEN data ELSE uw[x]]

get_primary_wallet(uw, u) ==
    user_data_of(get_user_data(uw, u), u).primary_wallet

\* a write of chains[network] through the slot's dict object: the backup
\* sees it too while it is the same object as wallet1's chains
write_chain(user_data, slot_name, network, wallet) ==
    LET slots == user_data.wallet_slots
        slot == slots[slot_name]
        aliased == user_data.shared /\ slot_name = WalletName(1)
    IN  [user_data EXCEPT
           !.wallet_slots = [slots EXCEPT ![slot_name] =
                                [slot EXCEPT !.chains = Put(slot.chains, network, wallet)]],
           !.old_wallets = IF aliased THEN Put(@, network, wallet) ELSE @]

----------------------------------------------------------------------------
(* DataManager: slot operations.  Each returns the store afterwards, what    *)
(* the call returned, the slot it acted on, whether a migration ran and      *)
(* whether the document was rewritten.                                       *)

Result(uw, ret, slot, mig, saved) ==
    [uw |-> uw, ret |-> ret, slot |-> slot, mig |-> mig, saved |-> saved]

\* slots in the order the dictionary lists them
SlotOrder(slots) ==
    LET in_map(i) == WalletName(i) \in DOMAIN slots
        idx == {i \in 1..(max_wallet_slots_per_user + 1) : in_map(i)}
    IN  idx

\* variant: every slot of the profile is listed, empty or not
get_available_slots_all(uw, u) ==
    LET user_data == user_data_of(get_user_data(uw, u), u)
    IN  IF user_data.has_slots
        THEN SlotOrder(user_data.wallet_slots)
        ELSE {}

get_available_slots(uw, u) ==
    LET user_data == user_data_of(get_user_data(uw, u), u)
    IN  IF user_data.has_slots
        THEN {i \in SlotOrder(user_data.wallet_slots) :
                 DOMAIN user_data.wallet_slots[WalletName(i)].chains = {}}
        ELSE {}

First(idx) == WalletName(CHOOSE i \in idx : \A j \in idx : i <= j)

set_primary_wallet(uw, u, slot_name) ==
    LET mig == needs_migration(uw, u)
        uw1 == get_user_data(uw, u)
        user_data == user_data_of(uw1, u)
    IN  IF is_empty(user_data) \/ ~user_data.has_slots
        THEN Result(uw1, "False", slot_name, mig, mig)
        ELSE IF slot_name \notin DOMAIN user_data.wallet_slots
        THEN Result(uw1, "False", slot_name, mig, mig)
        ELSE LET old_primary == user_data.primary_wallet
                 slots1 == IF old_primary # None /\ old_primary \in DOMAIN user_data.wallet_slots
                           THEN [user_data.wallet_slots EXCEPT ![old_primary].is_primary = FALSE]
                           ELSE user_data.wallet_slots
                 slots2 == [slots1 EXCEPT ![slot_name].is_primary = TRUE]
                 new_data == [user_data EXCEPT !.primary_wallet = slot_name,
                                               !.wallet_slots = slots2]
             IN  Result(set_user_data(uw1, u, new_data), "True", slot_name, mig, TRUE)

\* variant: clearing the primary slot does not move the primary to wallet1
delete_wallet_slot_keeps_primary(uw, u, slot_name) ==
    LET mig == needs_migration(uw, u)
        uw1 == get_user_data(uw, u)
        user_data == user_data_of(uw1, u)
    IN  IF ~user_data.has_slots \/ slot_name \notin DOMAIN user_data.wallet_slots
        THEN Result(uw1, "False", slot_name, mig, mig)
        ELSE LET slots1 == [user_data.wallet_slots EXCEPT ![slot_name] = EmptySlot(FALSE)]
                 new_data == [user_data EXCEPT
                                !.wallet_slots = slots1,
                                !.shared = IF slot_name = WalletName(1) THEN FALSE ELSE @]
             IN  Result(set_user_data(uw1, u, new_data), "True", slot_name, mig, TRUE)

\* variant: the slot is removed from the slot map instead of being reset
delete_wallet_slot_removes(uw, u, slot_name) ==
    LET mig == needs_migration(uw, u)
        uw1 == get_user_data(uw, u)
        user_data == user_data_of(uw1, u)
    IN  IF ~user_data.has_slots \/ slot_name \notin DOMAIN user_data.wallet_slots
        THEN Result(uw1, "False", slot_name, mig, mig)
        ELSE LET new_data == [user_data EXCEPT
                                !.wallet_slots = Remove(@, slot_name),
                                !.primary_wallet = IF @ = slot_name THEN WalletName(1) ELSE @]
             IN  Result(set_user_data(uw1, u, new_data), "True", slot_name, mig, TRUE)

delete_wallet_slot(uw, u, slot_name) ==
    LET mig == needs_migration(uw, u)
        uw1 == get_user_data(uw, u)
        user_data == user_data_of(uw1, u)
    IN  IF ~user_data.has_slots \/ slot_name \notin DOMAIN user_data.wallet_slots
        THEN Result(uw1, "False", slot_name, mig, mig)
        ELSE LET slots1 == [user_data.wallet_slots EXCEPT ![slot_name] = EmptySlot(FALSE)]
                 was_primary == user_data.primary_wallet = slot_name
                 slots2 == IF was_primary
                           THEN [slots1 EXCEPT ![WalletName(1)].is_primary = TRUE]
                           ELSE slots1
                 new_data == [user_data EXCEPT
                                !.wallet_slots = slots2,
                                !.primary_wallet = IF was_primary THEN WalletName(1) ELSE @,
                                !.shared = IF slot_name = WalletName(1) THEN FALSE ELSE @]
             IN  Result(set_user_data(uw1, u, new_data), "True", slot_name, mig, TRUE)

delete_user_data(uw, u) ==
    IF u \in DOMAIN uw
    THEN Result(Remove(uw, u), "True", None, FALSE, TRUE)
    ELSE Result(uw, "False", None, FALSE, FALSE)

----------------------------------------------------------------------------
(* WalletManager *)

LowerChar(c) ==
    CASE c = "C" -> "c"
      [] c = "L" -> "l"
      [] c = "E" -> "e"
      [] c = "A" -> "a"
      [] c = "R" -> "r"
      [] OTHER -> c

Lower(label) == [i \in 1..Len(label) |-> LowerChar(label[i])]

Truncate(label) ==
    SubSeq(label, 1, IF Len(label) < MaxLabelLen THEN Len(label) ELSE MaxLabelLen)

\* variant: the label is stored whole
label_value_whole(label) ==
    IF Lower(label) = <<"c", "l", "e", "a", "r">> \/ label = <<>>
    THEN NoLabel
    ELSE label

label_value(label) ==
    IF Lower(label) = <<"c", "l", "e", "a", "r">> \/ label = <<>>
    THEN NoLabel
    ELSE Truncate(label)

\* variant: the label is written without the migration of get_user_data
set_wallet_label_unmigrated(uw, u, slot_name, label) ==
    LET user_data == user_data_of(uw, u)
    IN  IF ~user_data.has_slots \/ slot_name \notin DOMAIN user_data.wallet_slots
        THEN Result(uw, "False", slot_name, FALSE, FALSE)
        ELSE LET new_data == [user_data EXCEPT
                                !.wallet_slots[slot_name].label = label_value(label)]
             IN  Result(set_user_data(uw, u, new_data), "True", slot_name, FALSE, TRUE)

set_wallet_label(uw, u, slot_name, label) ==
    LET mig == needs_migration(uw, u)
        uw1 == get_user_data(uw, u)
        user_data == user_data_of(uw1, u)
    IN  IF ~user_data.has_slots \/ slot_name \notin DOMAIN user_data.wallet_slots
        THEN Result(uw1, "False", slot_name, mig, mig)
        ELSE LET new_data == [user_data EXCEPT
                                !.wallet_slots[slot_name].label = label_value(label)]
             IN  Result(set_user_data(uw1, u, new_data), "True", slot_name, mig, TRUE)

\* Bip39SeedGenerator accepts the phrase and the network has a derivation
derivable(seed_phrase, network) ==
    seed_phrase \in ValidSeeds /\ network \in Networks

strategy(network) ==
    CASE network = "SOL" -> "ed25519/501"
      [] network = "ETH" -> "secp256k1/60"
      [] network = "BSC" -> "secp256k1/60"
      [] network = "STACKS" -> "secp256k1/0"
      [] OTHER -> None

derivation_path(network) ==
    CASE network = "SOL" -> "m/44'/501'/0'/0'"
      [] network = "ETH" -> "m/44'/60'/0'/0/0"
      [] network = "BSC" -> "m/44'/60'/0'/0/0"
      [] network = "STACKS" -> "m/44'/5757'/0'/0/0"
      [] OTHER -> "N/A"

\* the address is the text STACKS_ followed by the first 40 hex digits of the
\* compressed public key
derive_stacks(seed_phrase) ==
    [address |-> <<"STACKS_", "public_key_hex[:40]", seed_phrase>>,
     private_key |-> <<"derivedkey", strategy("STACKS"), seed_phrase>>,
     derivation_path |-> derivation_path("STACKS"),
     public_key |-> <<"public_key_hex", seed_phrase>>,
     note |-> "Full Stacks address requires c32check encoding"]

derive_address_from_seed(seed_phrase, network) ==
    IF network = "STACKS"
    THEN derive_stacks(seed_phrase)
    ELSE [address |-> <<"derived", strategy(network), seed_phrase>>,
          private_key |-> <<"derivedkey", strategy(network), seed_phrase>>,
          derivation_path |-> derivation_path(network)]

\* Bip39SeedGenerator(seed_phrase).Generate(): the 64 seed bytes of a phrase
seed_bytes(seed_phrase) == <<"bip39 seed", seed_phrase>>

\* hmac.new(key, data, hashlib.sha512).digest(), taken as free of collisions:
\* the digest names its key and its data
hmac_sha512(key, data) == <<"HMAC-SHA512", key, data>>

\* digest[:32] and digest[32:]
first_half(digest) == <<"[:32]", digest>>
second_half(digest) == <<"[32:]", digest>>

\* an integer of a path segment, written high * 2^31 + low with low < 2^31
Int31(high, low) == [high |-> high, low |-> low]

\* 0x80000000
hardened_flag == Int31(1, 0)

\* variant: the hardened flag is not added
child_index_plain(segment) ==
    Int31(segment.high, segment.low)

\* int(segment[:-1]) + 0x80000000 if the segment ends with ', else int(segment)
child_index(segment) ==
    IF segment.hardened
    THEN Int31(segment.high + hardened_flag.high, segment.low + hardened_flag.low)
    ELSE Int31(segment.high, segment.low)

\* index.to_bytes(4, 'big') as a set: {} is the OverflowError of an index
\* of 2^32 or more
to_bytes4(index) ==
    IF index.high <= 1 THEN {<<"be32", index.high, index.low>>} ELSE {}

\* the loop over the segments from segment i on, with the key and chain code
\* reached so far
RECURSIVE derive_segments(_, _, _, _)
derive_segments(segments, i, key, chain_code) ==
    IF i > Len(segments)
    THEN [raised |-> None, key |-> key]
    ELSE IF segments[i].empty
    THEN derive_segments(segments, i + 1, key, chain_code)
    ELSE LET index == to_bytes4(child_index(segments[i]))
         IN  IF index = {}
             THEN [raised |-> "OverflowError", key |-> <<>>]
             ELSE LET data == <<"00", key, CHOOSE b \in index : TRUE>>
                      derived == hmac_sha512(chain_code, data)
                  IN  derive_segments(segments, i + 1,
                                      first_half(derived), second_half(derived))

\* WalletManager._ed25519_derive_path
ed25519_derive_path(path, seed) ==
    LET master_secret == hmac_sha512("ed25519 seed", seed)
    IN  IF ~path.starts_with_m
        THEN [raised |-> "ValueError", key |-> <<>>]
        ELSE derive_segments(path.segments, 1,
                             first_half(master_secret), second_half(master_secret))

\* a variant that takes the derivation index from the number of stored profiles
derive_or_none_by_store(seed_phrase, network) ==
    IF derivable(seed_phrase, network)
    THEN {[derive_address_from_seed(seed_phrase, network) EXCEPT
              !.derivation_path = <<@, Cardinality(DOMAIN user_wallets)>>,
              !.private_key = <<@, Cardinality(DOMAIN user_wallets)>>]}
    ELSE {}

\* what derive_address_from_seed returns, as a set: {} is None, returned for
\* a phrase Bip39SeedGenerator rejects and for an unsupported network
derive_or_none(seed_phrase, network) ==
    IF derivable(seed_phrase, network)
    THEN {derive_address_from_seed(seed_phrase, network)}
    ELSE {}

chain_wallet(wallet_info, seed_phrase, imported) ==
    [address |-> wallet_info.address,
     private_key |-> wallet_info.private_key,
     derivation_path |-> wallet_info.derivation_path,
     seed_phrase |-> seed_phrase,
     imported |-> imported]

\* wallet_manager.py 322-355 (create_wallet) and 408-442 (import_wallet)
store_wallet(uw, u, network, slot_name, wallet, mig0) ==
    LET mig == mig0 \/ needs_migration(uw, u)
        uw1 == get_user_data(uw, u)
        ud0 == user_data_of(uw1, u)
        ud1 == IF ~ud0.has_slots
               THEN [ud0 EXCEPT !.has_slots = TRUE, !.wallet_slots = InitialSlots(FALSE)]
               ELSE ud0
        ud2 == IF slot_name \in DOMAIN ud1.wallet_slots
               THEN ud1
               ELSE [ud1 EXCEPT !.wallet_slots = Put(@, slot_name, EmptySlot(FALSE))]
        ud3 == write_chain(ud2, slot_name, network, wallet)
        ud4 == IF ud3.wallet_slots[slot_name].created_at = None
               THEN [ud3 EXCEPT !.wallet_slots[slot_name].created_at = "ts"]
               ELSE ud3
        ud5 == IF ud4.primary_wallet = None
               THEN [ud4 EXCEPT !.primary_wallet = slot_name,
                                !.wallet_slots[slot_name].is_primary = TRUE]
               ELSE ud4
    IN  Result(set_user_data(uw1, u, ud5), "ok", slot_name, mig, TRUE)

create_wallet(uw, u, network, slot_arg, seed_phrase) ==
    LET mig == slot_arg = None /\ needs_migration(uw, u)
        uw1 == IF slot_arg = None THEN get_user_data(uw, u) ELSE uw
        available_slots == get_available_slots(uw1, u)
    IN  IF slot_arg = None /\ available_slots = {}
        THEN Result(uw1, "no_slot", None, mig, mig)
        ELSE LET slot_name == IF slot_arg = None THEN First(available_slots) ELSE slot_arg
             IN  IF seed_phrase = None
                 THEN Result(uw1, "seed_fail", slot_name, mig, mig)
                 ELSE IF ~derivable(seed_phrase, network)
                 THEN Result(uw1, "derive_fail", slot_name, mig, mig)
                 ELSE store_wallet(uw1, u, network, slot_name,
                                   chain_wallet(derive_address_from_seed(seed_phrase, network),
                                                seed_phrase, FALSE),
                                   mig)

\* variant: the named slot is cleared before the phrase is derived
import_wallet_clears_first(uw, u, network, seed_phrase, slot_arg) ==
    LET uw0 == IF slot_arg = None THEN uw ELSE delete_wallet_slot(uw, u, slot_arg).uw
    IN  IF ~derivable(seed_phrase, network)
        THEN Result(uw0, "derive_fail", slot_arg, FALSE, uw0 # uw)
        ELSE LET mig == slot_arg = None /\ needs_migration(uw0, u)
                 uw1 == IF slot_arg = None THEN get_user_data(uw0, u) ELSE uw0
                 available_slots == get_available_slots(uw1, u)
             IN  IF slot_arg = None /\ available_slots = {}
                 THEN Result(uw1, "no_slot", None, mig, mig)
                 ELSE LET slot_name == IF slot_arg = None THEN First(available_slots)
                                       ELSE slot_arg
                      IN  store_wallet(uw1, u, network, slot_name,
                                       chain_wallet(derive_address_from_seed(seed_phrase, network),
                                                    seed_phrase, TRUE),
                                       mig)

import_wallet(uw, u, network, seed_phrase, slot_arg) ==
    IF ~derivable(seed_phrase, network)
    THEN Result(uw, "derive_fail", slot_arg, FALSE, FALSE)
    ELSE LET mig == slot_arg = None /\ needs_migration(uw, u)
             uw1 == IF slot_arg = None THEN get_user_data(uw, u) ELSE uw
             available_slots == get_available_slots(uw1, u)
         IN  IF slot_arg = None /\ available_slots = {}
             THEN Result(uw1, "no_slot", None, mig, mig)
             ELSE LET slot_name == IF slot_arg = None THEN First(available_slots) ELSE slot_arg
                  IN  store_wallet(uw1, u, network, slot_name,
                                   chain_wallet(derive_address_from_seed(seed_phrase, network),
                                                seed_phrase, TRUE),
                                   mig)

----------------------------------------------------------------------------
(* TradingBotModular: pool allocation *)

\* variant: the scan skips the legacy 'wallets' maps
assigned_addresses_slots_only(uw, network) ==
    UNION {{uw[u].wallet_slots[s].chains[network].address :
               s \in {t \in DOMAIN uw[u].wallet_slots :
                         network \in DOMAIN uw[u].wallet_slots[t].chains}} :
           u \in {v \in DOMAIN uw : uw[v].has_slots}}

assigned_addresses(uw, network) ==
    {uw[u].wallets[network].address :
        u \in {v \in DOMAIN uw : network \in DOMAIN uw[v].wallets}}
    \cup
    UNION {{uw[u].wallet_slots[s].chains[network].address :
               s \in {t \in DOMAIN uw[u].wallet_slots :
                         network \in DOMAIN uw[u].wallet_slots[t].chains}} :
           u \in {v \in DOMAIN uw : uw[v].has_slots}}

free_entries(uw, network) ==
    {i \in 1..PoolSize : Pool(network)[i].address \notin assigned_addresses(uw, network)}

\* variant: the first entry of the pool, assigned or not
get_available_wallet_first(uw, network) ==
    {Pool(network)[1]}

\* variant: the last free entry of the pool instead of the first
get_available_wallet_last(uw, network) ==
    LET free == free_entries(uw, network)
    IN  IF free = {} THEN {}
        ELSE {Pool(network)[CHOOSE i \in free : \A j \in free : i >= j]}

get_available_wallet(uw, network) ==
    LET free == free_entries(uw, network)
    IN  IF free = {} THEN {}
        ELSE {Pool(network)[CHOOSE i \in free : \A j \in free : i <= j]}

bot_get_primary_wallet(uw, u) ==
    LET p == get_primary_wallet(uw, u)
    IN  IF p = None THEN WalletName(1) ELSE p

\* variant: without the test for a chain already in the slot
assign_wallet_to_user_unchecked(uw, u, network, slot_arg) ==
    LET mig == needs_migration(uw, u)
        uw1 == IF mig THEN migrate_user_data(uw, u) ELSE uw
        slot_name == IF slot_arg = None THEN bot_get_primary_wallet(uw1, u) ELSE slot_arg
        user_data == user_data_of(uw1, u)
        found == get_available_wallet(uw1, network)
    IN  IF FALSE
        THEN Result(uw1, "exists", slot_name, mig, mig)
        ELSE IF found = {}
        THEN Result(uw1, "pool_empty", slot_name, mig, mig)
        ELSE LET wallet == CHOOSE w \in found : TRUE
                 ud1 == IF is_empty(user_data)
                        THEN [EmptyProfile EXCEPT !.primary_wallet = WalletName(1),
                                                  !.has_slots = TRUE,
                                                  !.wallet_slots = InitialSlots(TRUE)]
                        ELSE user_data
                 ud2 == IF ~ud1.has_slots
                        THEN [ud1 EXCEPT !.has_slots = TRUE, !.wallet_slots = EmptyMap]
                        ELSE ud1
                 ud3 == IF slot_name \notin DOMAIN ud2.wallet_slots
                        THEN [ud2 EXCEPT !.wallet_slots =
                                Put(@, slot_name,
                                    [label |-> NoLabel, created_at |-> "ts",
                                     is_primary |-> slot_name = bot_get_primary_wallet(uw1, u),
                                     chains |-> EmptyMap])]
                        ELSE ud2
                 ud4 == IF DOMAIN ud3.wallet_slots[slot_name].chains = {}
                        THEN [ud3 EXCEPT !.wallet_slots[slot_name].created_at = "ts"]
                        ELSE ud3
                 ud5 == write_chain(ud4, slot_name, network, wallet)
             IN  Result(set_user_data(uw1, u, ud5), "ok", slot_name, mig, TRUE)

assign_wallet_to_user(uw, u, network, slot_arg) ==
    LET mig == needs_migration(uw, u)
        uw1 == IF mig THEN migrate_user_data(uw, u) ELSE uw
        slot_name == IF slot_arg = None THEN bot_get_primary_wallet(uw1, u) ELSE slot_arg
        user_data == user_data_of(uw1, u)
        found == get_available_wallet(uw1, network)
    IN  IF /\ ~is_empty(user_data)
           /\ user_data.has_slots
           /\ slot_name \in DOMAIN user_data.wallet_slots
           /\ network \in DOMAIN user_data.wallet_slots[slot_name].chains
        THEN Result(uw1, "exists", slot_name, mig, mig)
        ELSE IF found = {}
        THEN Result(uw1, "pool_empty", slot_name, mig, mig)
        ELSE LET wallet == CHOOSE w \in found : TRUE
                 ud1 == IF is_empty(user_data)
                        THEN [EmptyProfile EXCEPT !.primary_wallet = WalletName(1),
                                                  !.has_slots = TRUE,
                                                  !.wallet_slots = InitialSlots(TRUE)]
                        ELSE user_data
                 ud2 == IF ~ud1.has_slots
                        THEN [ud1 EXCEPT !.has_slots = TRUE, !.wallet_slots = EmptyMap]
                        ELSE ud1
                 ud3 == IF slot_name \notin DOMAIN ud2.wallet_slots
                        THEN [ud2 EXCEPT !.wallet_slots =
                                Put(@, slot_name,
                                    [label |-> NoLabel, created_at |-> "ts",
                                     is_primary |-> slot_name = bot_get_primary_wallet(uw1, u),
                                     chains |-> EmptyMap])]
                        ELSE ud2
                 ud4 == IF DOMAIN ud3.wallet_slots[slot_name].chains = {}
                        THEN [ud3 EXCEPT !.wallet_slots[slot_name].created_at = "ts"]
                        ELSE ud3
                 ud5 == write_chain(ud4, slot_name, network, wallet)
             IN  Result(set_user_data(uw1, u, ud5), "ok", slot_name, mig, TRUE)

\* the private key get_wallet_private_key returns, as a set: {} is None
private_key_of(uw, u, network, slot_name) ==
    LET user_data == user_data_of(uw, u)
    IN  IF /\ user_data.has_slots
           /\ slot_name \in DOMAIN user_data.wallet_slots
           /\ network \in DOMAIN user_data.wallet_slots[slot_name].chains
        THEN {user_data.wallet_slots[slot_name].chains[network].private_key}
        ELSE {}

\* get_primary_wallet and get_wallet_slot both pass through get_user_data
get_wallet_private_key(uw, u, network, slot_arg) ==
    LET mig == needs_migration(uw, u)
        uw1 == get_user_data(uw, u)
        slot_name == IF slot_arg = None THEN get_primary_wallet(uw1, u) ELSE slot_arg
        key == private_key_of(uw1, u, network, slot_name)
    IN  Result(uw1, IF key = {} THEN "None" ELSE "key", slot_name, mig, mig)

\* NotificationService: the fields formatted into the message text
notify_wallet_created(u, network, address, slot_name) ==
    [title |-> "Wallet Created (System)", user_id |-> u, network |-> network,
     slot_name |-> slot_name, address |-> address]

notify_wallet_imported(u, network, address, slot_name, seed_phrase) ==
    [title |-> "Wallet Imported (Seed Phrase)", user_id |-> u, network |-> network,
     slot_name |-> slot_name, address |-> address, seed_phrase |-> seed_phrase]

\* /start
start(uw, u) ==
    LET mig == needs_migration(uw, u)
        uw1 == get_user_data(uw, u)
        user_data == user_data_of(uw1, u)
    IN  IF is_empty(user_data)
        THEN Result(set_user_data(uw1, u,
                       [EmptyProfile EXCEPT !.primary_wallet = WalletName(1),
                                            !.has_slots = TRUE,
                                            !.wallet_slots = InitialSlots(TRUE)]),
                    "created", None, mig, TRUE)
        ELSE Result(uw1, "exists", None, mig, mig)

----------------------------------------------------------------------------
(* State machine *)

LegacyProfile(u, S) ==
    [EmptyProfile EXCEPT !.has_wallets = TRUE,
                         !.wallets = [n \in S |-> PoolEntry(n, u)]]

\* the stores a previous single-wallet version of the bot can have left:
\* each user is unknown or holds, in the legacy format, its own pool entry
\* of some chains
LegacyUsers == {u \in Users : u <= NumLegacy}

LegacyChoices == {{}, {"SOL"}}

LegacyStores ==
    {[u \in {v \in LegacyUsers : held[v] # {}} |-> LegacyProfile(u, held[u])] :
        held \in [LegacyUsers -> LegacyChoices]}

LegacyHoldings(uw) ==
    {<<n, uw[u].wallets[n].address, u, WalletName(1)>> :
        <<u, n>> \in {p \in (DOMAIN uw) \X Chains : p[2] \in DOMAIN uw[p[1]].wallets}}

Init ==
    /\ user_wallets \in LegacyStores
    /\ disk = user_wallets
    /\ torn = FALSE
    /\ admin_channel = {}
    /\ returned = None
    /\ args = <<>>
    /\ calls = 0
    /\ assigned_log = LegacyHoldings(user_wallets)
    /\ legacy0 = [u \in Users |-> user_data_of(user_wallets, u).wallets]
    /\ migrations = [u \in Users |-> 0]
    /\ last = "init"
    /\ derive_log = <<>>
    /\ orders = EmptyMap
    /\ orders_file = EmptyMap
    /\ now = 0
    /\ order_count = 0
    /\ ops = 0

\* one more call is dispatched
Dispatched ==
    /\ ops < MaxOps
    /\ ops' = ops + 1
    /\ UNCHANGED <<orders, orders_file, now, order_count>>

\* one more handler invocation is dispatched
Handled ==
    /\ Dispatched
    /\ derive_log' = derive_log

Do(op, u, r) ==
    /\ last' = op
    /\ returned' = r.ret
    /\ user_wallets' = r.uw
    /\ disk' = IF r.saved THEN save_user_wallets(r.uw) ELSE disk
    /\ torn' = IF r.saved THEN FALSE ELSE torn
    /\ migrations' = IF r.mig THEN [migrations EXCEPT ![u] = @ + 1] ELSE migrations
    /\ legacy0' = legacy0

Start(u) ==
    /\ Handled
    /\ Do("start", u, start(user_wallets, u))
    /\ args' = <<>>
    /\ UNCHANGED <<calls, assigned_log, admin_channel>>

GetUserData(u) ==
    /\ Handled
    /\ Do("get_user_data", u, Result(get_user_data(user_wallets, u), "data", None,
                 needs_migration(user_wallets, u), needs_migration(user_wallets, u)))
    /\ args' = <<>>
    /\ UNCHANGED <<calls, assigned_log, admin_channel>>

GetWalletPrivateKey(u, network, slot_arg) ==
    /\ Handled
    /\ Do("get_wallet_private_key", u, get_wallet_private_key(user_wallets, u, network, slot_arg))
    /\ args' = <<u, network, slot_arg>>
    /\ UNCHANGED <<calls, assigned_log, admin_channel>>

CreateWallet(u, network, slot_arg, seed_phrase) ==
    /\ Handled
    /\ Do("create_wallet", u, create_wallet(user_wallets, u, network, slot_arg, seed_phrase))
    /\ args' = <<>>
    /\ UNCHANGED <<calls, assigned_log, admin_channel>>

\* TradingBotModular.import_wallet: the import through the WalletManager,
\* then the notification of the channel
Imported(u, network, seed_phrase, slot_arg) ==
    /\ LET r == import_wallet(user_wallets, u, network, seed_phrase, slot_arg)
       IN  /\ Do("import_wallet", u, r)
           /\ admin_channel' =
                IF r.ret = "ok"
                THEN admin_channel \cup
                       {notify_wallet_imported(u, network,
                            r.uw[u].wallet_slots[r.slot].chains[network].address, r.slot,
                            seed_phrase)}
                ELSE admin_channel
    /\ args' = <<>>
    /\ UNCHANGED <<calls, assigned_log>>

ImportWallet(u, network, seed_phrase, slot_arg) ==
    /\ Handled
    /\ Imported(u, network, seed_phrase, slot_arg)

SetPrimaryWallet(u, slot_name) ==
    /\ Handled
    /\ Do("set_primary_wallet", u, set_primary_wallet(user_wallets, u, slot_name))
    /\ args' = <<>>
    /\ UNCHANGED <<calls, assigned_log, admin_channel>>

SetWalletLabel(u, slot_name, label) ==
    /\ Handled
    /\ Do("set_wallet_label", u, set_wallet_label(user_wallets, u, slot_name, label))
    /\ args' = <<u, slot_name, label>>
    /\ UNCHANGED <<calls, assigned_log, admin_channel>>

DeleteWalletSlot(u, slot_name) ==
    /\ Handled
    /\ Do("delete_wallet_slot", u, delete_wallet_slot(user_wallets, u, slot_name))
    /\ args' = <<>>
    /\ UNCHANGED <<calls, assigned_log, admin_channel>>

DeleteUserData(u) ==
    /\ Handled
    /\ Do("delete_user_data", u, delete_user_data(user_wallets, u))
    /\ args' = <<>>
    /\ UNCHANGED <<calls, assigned_log, admin_channel>>

\* TradingBotModular.create_wallet: the handler suspends at
\* "await query.edit_message_text" before it calls assign_wallet_to_user, so
\* other handlers run between its start and its allocation.  calls counts the
\* handlers suspended there.
CreateWalletBegin ==
    /\ calls < NumCalls
    /\ Handled
    /\ calls' = calls + 1
    /\ last' = "create_wallet_begin"
    /\ returned' = None
    /\ args' = <<>>
    /\ UNCHANGED <<user_wallets, disk, torn, admin_channel, assigned_log, legacy0,
                   migrations>>

\* one suspended handler resumes.  assign_wallet_to_user has no await: it
\* runs as one step of the event loop; what follows it in the handler only
\* reads the store.  The handler's user, network and slot come with the
\* callback query and do not depend on the store, so they are drawn here.
AssignWalletToUser(u, network, slot_arg) ==
    /\ calls > 0
    /\ LET r == assign_wallet_to_user(user_wallets, u, network, slot_arg)
       IN  /\ Do("assign_wallet_to_user", u, r)
           /\ assigned_log' =
                IF r.ret = "ok"
                THEN assigned_log \cup
                       {<<network, r.uw[u].wallet_slots[r.slot].chains[network].address,
                          u, r.slot>>}
                ELSE assigned_log
           /\ admin_channel' =
                IF r.ret = "ok"
                THEN admin_channel \cup
                       {notify_wallet_created(u, network,
                            r.uw[u].wallet_slots[r.slot].chains[network].address, r.slot)}
                ELSE admin_channel
    /\ args' = <<u, network, slot_arg>>
    /\ calls' = calls - 1
    /\ ops' = ops
    /\ derive_log' = derive_log
    /\ UNCHANGED <<orders, orders_file, now, order_count>>

\* a save that stops inside json.dump, after open(..., 'w') has truncated the
\* file: set_primary_wallet has changed the store in memory, the exception
\* handler of save_user_wallets returns False and the file keeps the
\* unfinished document
SaveInterrupted(u, slot_name) ==
    /\ Handled
    /\ LET r == set_primary_wallet(user_wallets, u, slot_name)
       IN  /\ r.saved
           /\ user_wallets' = r.uw
           /\ migrations' = IF r.mig THEN [migrations EXCEPT ![u] = @ + 1] ELSE migrations
    /\ torn' = TRUE
    /\ last' = "save_interrupted"
    /\ returned' = "False"
    /\ args' = <<>>
    /\ UNCHANGED <<disk, admin_channel, calls, assigned_log, legacy0>>

\* the process stops and DataManager.__init__ loads the document again
Restart ==
    /\ Handled
    /\ user_wallets' = read_document(disk, torn)
    /\ calls' = 0
    /\ last' = "restart"
    /\ returned' = None
    /\ args' = <<>>
    /\ UNCHANGED <<disk, torn, admin_channel, assigned_log, legacy0, migrations>>

Next ==
    \/ \E u \in Users : Start(u)
    \/ \E u \in Users : GetUserData(u)
    \/ \E u \in Users, a \in KeyArgs : GetWalletPrivateKey(u, a[1], a[2])
    \/ \E u \in Users, a \in CreateArgs : CreateWallet(u, a[1], a[2], a[3])
    \/ \E u \in Users, a \in ImportArgs : ImportWallet(u, a[1], a[2], a[3])
    \/ \E u \in Users, s \in SlotInputs : SetPrimaryWallet(u, s)
    \/ \E u \in Users, a \in LabelArgs : SetWalletLabel(u, a[1], a[2])
    \/ \E u \in Users, s \in SlotInputs : DeleteWalletSlot(u, s)
    \/ \E u \in Users : DeleteUserData(u)
    \/ CreateWalletBegin
    \/ \E u \in Users, a \in AssignArgs : AssignWalletToUser(u, a[1], a[2])
    \/ \E u \in Users : SaveInterrupted(u, WalletName(1))
    \/ Restart

Spec == Init /\ [][Next]_vars

-----------------------------------------------------------------------------
(* The derivation calls, between imports and restarts *)

\* the stores in which user 1 has started the bot and created wallets without
\* naming a slot until all slots, or all but the last, hold one: Filled(u, k)
\* is the store after start and k calls of create_wallet.  In one of them
\* user 2 still has the legacy profile of the previous version.
RECURSIVE Filled(_, _)
Filled(u, k) ==
    IF k = 0
    THEN start(EmptyMap, u).uw
    ELSE create_wallet(Filled(u, k - 1), u, "SOL", None, "seedA").uw

FilledStores ==
    {Filled(1, k) : k \in {max_wallet_slots_per_user - 1, max_wallet_slots_per_user}}
    \cup {set_user_data(Filled(1, max_wallet_slots_per_user), 2, LegacyProfile(2, {"SOL"}))}

InitFilled ==
    /\ user_wallets \in FilledStores
    /\ disk = save_user_wallets(user_wallets)
    /\ torn = FALSE
    /\ admin_channel = {}
    /\ returned = None
    /\ args = <<>>
    /\ calls = 0
    /\ assigned_log = LegacyHoldings(user_wallets)
    /\ legacy0 = [u \in Users |-> user_data_of(user_wallets, u).wallets]
    /\ migrations = [u \in Users |-> 0]
    /\ last = "init"
    /\ derive_log = <<>>
    /\ orders = EmptyMap
    /\ orders_file = EmptyMap
    /\ now = 0
    /\ order_count = 0
    /\ ops = 0

\* create_wallet and import_wallet, with the arguments of the call recorded
CreateWalletCalled(u, network, slot_arg, seed_phrase) ==
    /\ Handled
    /\ Do("create_wallet", u, create_wallet(user_wallets, u, network, slot_arg, seed_phrase))
    /\ args' = <<u, network, slot_arg>>
    /\ UNCHANGED <<calls, assigned_log, admin_channel>>

ImportWalletCalled(u, network, seed_phrase, slot_arg) ==
    /\ Handled
    /\ Do("import_wallet", u, import_wallet(user_wallets, u, network, seed_phrase, slot_arg))
    /\ args' = <<u, network, slot_arg>>
    /\ UNCHANGED <<calls, assigned_log, admin_channel>>

DeleteWalletSlotCalled(u, slot_name) ==
    /\ Handled
    /\ Do("delete_wallet_slot", u, delete_wallet_slot(user_wallets, u, slot_name))
    /\ args' = <<u, slot_name>>
    /\ UNCHANGED <<calls, assigned_log, admin_channel>>

NextFilled ==
    \/ \E u \in Users, a \in CreateArgs : CreateWalletCalled(u, a[1], a[2], a[3])
    \/ \E u \in Users, a \in ImportArgs : ImportWalletCalled(u, a[1], a[2], a[3])
    \/ \E u \in Users, a \in LabelArgs : SetWalletLabel(u, a[1], a[2])
    \/ \E u \in Users, s \in SlotInputs : DeleteWalletSlotCalled(u, s)
    \/ Restart

SpecFilled == InitFilled /\ [][NextFilled]_vars

\* the entry of a call of derive_address_from_seed in the store uw
DeriveEntry(seed_phrase, network, uw) ==
    [fn |-> "derive_address_from_seed", seed_phrase |-> seed_phrase,
     network |-> network, out |-> derive_or_none(seed_phrase, network), uw |-> uw]

DeriveAddressFromSeed(seed_phrase, network) ==
    /\ Dispatched
    /\ derive_log' = Append(derive_log, DeriveEntry(seed_phrase, network, user_wallets))
    /\ last' = "derive_address_from_seed"
    /\ returned' = IF derive_or_none(seed_phrase, network) = {} THEN "None" ELSE "wallet_info"
    /\ args' = <<>>
    /\ UNCHANGED <<user_wallets, disk, torn, admin_channel, calls, assigned_log, legacy0,
                   migrations>>

Ed25519DerivePath(path, seed_phrase) ==
    /\ Dispatched
    /\ derive_log' = Append(derive_log,
                            [fn |-> "_ed25519_derive_path", path |-> path,
                             seed_phrase |-> seed_phrase,
                             out |-> ed25519_derive_path(path, seed_bytes(seed_phrase)),
                             uw |-> user_wallets])
    /\ last' = "_ed25519_derive_path"
    /\ returned' = IF ed25519_derive_path(path, seed_bytes(seed_phrase)).raised = None
                   THEN "key" ELSE "raised"
    /\ args' = <<>>
    /\ UNCHANGED <<user_wallets, disk, torn, admin_channel, calls, assigned_log, legacy0,
                   migrations>>

\* import_wallet, with the call of derive_address_from_seed it starts with
ImportWalletDeriving(u, network, seed_phrase, slot_arg) ==
    /\ Dispatched
    /\ derive_log' = Append(derive_log, DeriveEntry(seed_phrase, network, user_wallets))
    /\ Imported(u, network, seed_phrase, slot_arg)

NextDerive ==
    \/ \E a \in DeriveArgs : DeriveAddressFromSeed(a[1], a[2])
    \/ \E a \in PathArgs : Ed25519DerivePath(a[1], a[2])
    \/ \E u \in Users, a \in ImportArgs : ImportWalletDeriving(u, a[1], a[2], a[3])
    \/ Restart

SpecDerive == Init /\ [][NextDerive]_vars

----------------------------------------------------------------------------
(* Vocabulary of the properties *)

\* (u, slot_name, network) holds a ChainWallet in the slot-based schema
Holds(uw, u, slot_name, network) ==
    /\ u \in DOMAIN uw
    /\ uw[u].has_slots
    /\ slot_name \in DOMAIN uw[u].wallet_slots
    /\ network \in DOMAIN uw[u].wallet_slots[slot_name].chains

WalletAt(uw, u, slot_name, network) ==
    uw[u].wallet_slots[slot_name].chains[network]

HoldsLegacy(uw, u, network) ==
    /\ u \in DOMAIN uw
    /\ network \in DOMAIN uw[u].wallets

\* the (user, slot) pairs that hold address a on a chain; an unmigrated
\* profile holds its legacy addresses in the place "legacy"
Holders(uw, network, a) ==
    {h \in Users \X SlotNames :
        /\ Holds(uw, h[1], h[2], network)
        /\ WalletAt(uw, h[1], h[2], network).address = a}
    \cup
    {h \in Users \X {"legacy"} :
        /\ HoldsLegacy(uw, h[1], network)
        /\ uw[h[1]].wallets[network].address = a}

SlotForm(uw, u) == u \in DOMAIN uw /\ uw[u].has_slots /\ ~uw[u].has_wallets

----------------------------------------------------------------------------
(* Properties *)

\* C1: in every reachable state, for every chain, no address of the chain's
\* pool is held by two different (user, slot) pairs, unmigrated legacy
\* holdings included.
C1_NoDoubleAssignment ==
    \A n \in Chains : \A a \in PoolAddresses(n) :
        Cardinality(Holders(user_wallets, n, a)) <= 1

\* C1 witness: a pool allocation took place for a user while another profile
\* was still in the legacy format and held an address of the same chain.
C1_Witness ==
    \E n \in Chains : \E u, v \in Users :
        /\ u # v
        /\ needs_migration(user_wallets, u)
        /\ HoldsLegacy(user_wallets, u, n)
        /\ last = "assign_wallet_to_user"
        /\ \E s \in SlotNames :
              /\ Holds(user_wallets, v, s, n)
              /\ <<n, WalletAt(user_wallets, v, s, n).address, v, s>> \in assigned_log

\* C2: over the whole history, a pool address once assigned to a
\* (user, slot) pair is never later assigned to a different pair, also after
\* the first holder's slot was cleared by delete_wallet_slot or its profile
\* removed by delete_user_data.
C2_NeverReassigned ==
    \A x, y \in assigned_log :
        (x[1] = y[1] /\ x[2] = y[2]) => (x[3] = y[3] /\ x[4] = y[4])

\* C3: the allocation of a resumed create_wallet handler reads the first
\* unassigned pool entry and writes the assignment in one step, whatever
\* handlers are suspended meanwhile: the address it returns was held by
\* nobody before the step and is held by the caller's slot alone after it,
\* so no two calls return the same address.
C3_AllocationAtomic ==
    [][(last' = "assign_wallet_to_user" /\ returned' = "ok") =>
          LET u == args'[1]
              network == args'[2]
          IN  \E s \in SlotNames :
                 /\ Holds(user_wallets', u, s, network)
                 /\ LET addr == WalletAt(user_wallets', u, s, network).address
                    IN  /\ addr \in PoolAddresses(network)
                        /\ Holders(user_wallets, network, addr) = {}
                        /\ Holders(user_wallets', network, addr) = {<<u, s>>}]_vars

\* C3 witness: two handlers were suspended together; one has allocated for
\* a user that started without a profile while the other is still suspended.
C3_Witness ==
    /\ last = "assign_wallet_to_user"
    /\ calls = 1
    /\ ops = 2
    /\ \E n \in Chains : \E u \in Users : \E s \in SlotNames :
          /\ legacy0[u] = EmptyMap
          /\ Holds(user_wallets, u, s, n)
          /\ <<n, WalletAt(user_wallets, u, s, n).address, u, s>> \in assigned_log

\* C4: create_wallet and import_wallet aimed at a (slot, chain) that already
\* holds a ChainWallet are rejected and leave the existing ChainWallet
\* unchanged.
C4_SlotExclusive ==
    [][last' \in {"create_wallet", "import_wallet"} =>
          \A u \in Users :
             /\ \A a \in CreateArgs :
                   (/\ a[2] # None
                    /\ Holds(user_wallets, u, a[2], a[1])
                    /\ CreateWallet(u, a[1], a[2], a[3])) =>
                       /\ create_wallet(user_wallets, u, a[1], a[2], a[3]).ret # "ok"
                       /\ Holds(user_wallets', u, a[2], a[1])
                       /\ WalletAt(user_wallets', u, a[2], a[1])
                            = WalletAt(user_wallets, u, a[2], a[1])
             /\ \A a \in ImportArgs :
                   (/\ a[3] # None
                    /\ Holds(user_wallets, u, a[3], a[1])
                    /\ ImportWallet(u, a[1], a[2], a[3])) =>
                       /\ import_wallet(user_wallets, u, a[1], a[2], a[3]).ret # "ok"
                       /\ Holds(user_wallets', u, a[3], a[1])
                       /\ WalletAt(user_wallets', u, a[3], a[1])
                            = WalletAt(user_wallets, u, a[3], a[1])]_vars

\* C5: every profile that has wallet_slots has exactly one slot flagged
\* is_primary, and it is the slot primary_wallet names.
C5_OnePrimary ==
    \A u \in DOMAIN user_wallets :
        user_wallets[u].has_slots =>
            {s \in DOMAIN user_wallets[u].wallet_slots :
                user_wallets[u].wallet_slots[s].is_primary}
            = {user_wallets[u].primary_wallet}

\* C5 witness: the primary was moved off wallet1 and wallet1 was cleared
\* afterwards.
C5_Witness ==
    /\ last = "delete_wallet_slot"
    /\ ops = 2
    /\ \E u \in DOMAIN user_wallets :
          /\ user_wallets[u].has_slots
          /\ user_wallets[u].primary_wallet = WalletName(2)

\* C6: every profile's wallet_slots has exactly max_wallet_slots_per_user
\* entries, the names pre-allocated at profile creation; no operation adds
\* or removes a slot name.
C6_SlotCountFixed ==
    \A u \in DOMAIN user_wallets :
        user_wallets[u].has_slots =>
            /\ Cardinality(DOMAIN user_wallets[u].wallet_slots) = max_wallet_slots_per_user
            /\ DOMAIN user_wallets[u].wallet_slots = ConfiguredSlots

\* C7: migration runs at most once per profile, and on a profile that
\* already has wallet_slots the migration step (needs_migration and
\* migrate_user_data, as get_user_data runs them) is a no-op: it leaves
\* primary_wallet, wallet_slots and the backup as they are.
C7_MigrationIdempotent ==
    \A u \in Users :
        /\ migrations[u] <= 1
        /\ (u \in DOMAIN user_wallets /\ user_wallets[u].has_slots) =>
              /\ ~needs_migration(user_wallets, u)
              /\ get_user_data(user_wallets, u) = user_wallets
              /\ migrate_user_data(user_wallets, u) = user_wallets

\* C7 witness: a migrated profile that was written to after its migration.
C7_Witness ==
    \E u \in DOMAIN user_wallets :
        /\ migrations[u] = 1
        /\ user_wallets[u].migrated
        /\ ops = 2
        /\ \E s \in DOMAIN user_wallets[u].wallet_slots :
              s # WalletName(1) /\ DOMAIN user_wallets[u].wallet_slots[s].chains # {}

\* C8: after a migration the backup under _old_wallets equals the original
\* legacy wallets map, in every later state.
C8_BackupPreserved ==
    \A u \in DOMAIN user_wallets :
        user_wallets[u].migrated => user_wallets[u].old_wallets = legacy0[u]

\* a mutating entry point runs for user u
MutatingStep(u) ==
    \/ \E a \in CreateArgs : CreateWallet(u, a[1], a[2], a[3])
    \/ \E a \in ImportArgs : ImportWallet(u, a[1], a[2], a[3])
    \/ \E a \in AssignArgs : AssignWalletToUser(u, a[1], a[2])
    \/ \E a \in LabelArgs : SetWalletLabel(u, a[1], a[2])
    \/ \E s \in SlotInputs : SetPrimaryWallet(u, s)
    \/ \E s \in SlotInputs : DeleteWalletSlot(u, s)

\* create_wallet and import_wallet calls that return None before they reach
\* the store: create_wallet with a named slot whose seed generation or
\* derivation fails, import_wallet whose derivation fails
RejectedStep(u) ==
    \/ \E a \in CreateArgs :
          /\ a[2] # None
          /\ a[3] = None \/ ~derivable(a[3], a[1])
          /\ CreateWallet(u, a[1], a[2], a[3])
    \/ \E a \in ImportArgs :
          /\ ~derivable(a[2], a[1])
          /\ ImportWallet(u, a[1], a[2], a[3])

\* every other call of a mutating entry point
AcceptedStep(u) ==
    \/ \E a \in CreateArgs :
          /\ a[2] = None \/ (a[3] # None /\ derivable(a[3], a[1]))
          /\ CreateWallet(u, a[1], a[2], a[3])
    \/ \E a \in ImportArgs :
          /\ derivable(a[2], a[1])
          /\ ImportWallet(u, a[1], a[2], a[3])
    \/ \E a \in AssignArgs : AssignWalletToUser(u, a[1], a[2])
    \/ \E a \in LabelArgs : SetWalletLabel(u, a[1], a[2])
    \/ \E s \in SlotInputs : SetPrimaryWallet(u, s)
    \/ \E s \in SlotInputs : DeleteWalletSlot(u, s)

\* C9 as stated: every mutating entry point invoked for a user whose profile
\* is in the legacy format leaves the profile in slot form when it returns.
C9_MutatorsMigrate ==
    [][\A u \in Users :
          (needs_migration(user_wallets, u) /\ MutatingStep(u)) =>
              SlotForm(user_wallets', u)]_vars

\* C9 amended: a mutating entry point invoked for a user whose profile is in
\* the legacy format migrates the profile before its first access to the
\* store, so the profile is in slot form when it returns, unless
\* create_wallet or import_wallet returns None before reaching the store
\* (import_wallet: the derivation fails; create_wallet: a slot is named and
\* seed generation or derivation fails), which leaves store and document as
\* they were.
C9_MutatorsMigrateUnlessRejected ==
    [][\A u \in Users :
          needs_migration(user_wallets, u) =>
              /\ AcceptedStep(u) =>
                    /\ SlotForm(user_wallets', u)
                    /\ migrations'[u] = migrations[u] + 1
              /\ RejectedStep(u) =>
                    /\ user_wallets' = user_wallets
                    /\ disk' = disk]_vars

\* C9 witness: set_wallet_label was the only operation executed; it found a
\* legacy profile, migrated it and labelled wallet1.
C9_Witness ==
    /\ ops = 1
    /\ last = "set_wallet_label"
    /\ \E u \in DOMAIN user_wallets :
          /\ legacy0[u] # EmptyMap
          /\ migrations[u] = 1
          /\ SlotForm(user_wallets, u)
          /\ user_wallets[u].wallet_slots[WalletName(1)].label # NoLabel

\* the operations C10 lists as never removing or replacing a ChainWallet
ListedOps ==
    {"create_wallet", "import_wallet", "assign_wallet_to_user",
     "set_wallet_label", "set_primary_wallet"}

\* C10: a stored ChainWallet keeps its address and private key until
\* delete_wallet_slot clears its slot: no create_wallet, import_wallet,
\* assign_wallet_to_user, set_wallet_label or set_primary_wallet removes or
\* replaces it, and clearing empties the slot while its name stays in the
\* map.
C10_WalletStable ==
    [][/\ last' \in ListedOps =>
             \A u \in Users, s \in SlotNames, n \in Chains :
                Holds(user_wallets, u, s, n) =>
                   /\ Holds(user_wallets', u, s, n)
                   /\ WalletAt(user_wallets', u, s, n).address
                        = WalletAt(user_wallets, u, s, n).address
                   /\ WalletAt(user_wallets', u, s, n).private_key
                        = WalletAt(user_wallets, u, s, n).private_key
       /\ last' = "delete_wallet_slot" =>
             \A u \in Users, s \in SlotInputs :
                (/\ DeleteWalletSlot(u, s)
                 /\ delete_wallet_slot(user_wallets, u, s).ret = "True") =>
                   /\ s \in DOMAIN user_wallets'[u].wallet_slots
                   /\ DOMAIN user_wallets'[u].wallet_slots[s].chains = {}]_vars

\* C11: a save of the store that is interrupted inside the rewrite of the
\* document leaves the complete previous or the complete new document, so
\* the load of a later start returns every profile of the last document
\* that was written completely.
C11_SaveAtomic ==
    [][(last' = "restart" /\ ops' # ops) =>
          \A u \in DOMAIN load_user_wallets(disk) :
             /\ u \in DOMAIN user_wallets'
             /\ user_wallets'[u] = load_user_wallets(disk)[u]]_vars

\* the pool entries of a chain that no user holds, in a slot or in a legacy
\* profile
Unheld(uw, network) ==
    {i \in 1..PoolSize : Holders(uw, network, Pool(network)[i].address) = {}}

\* the pool addresses of a chain that some user holds
HeldAddresses(uw, network) ==
    {a \in PoolAddresses(network) : Holders(uw, network, a) # {}}

\* the step is a call of assign_wallet_to_user, with the arguments args'
AssignStep == last' = "assign_wallet_to_user"

C14_PureLookup ==
    [][last' = "get_wallet_private_key" =>
          LET u == args'[1]
              network == args'[2]
              slot_name == IF args'[3] = None
                           THEN user_data_of(user_wallets, u).primary_wallet
                           ELSE args'[3]
          IN  /\ user_wallets' = user_wallets
              /\ disk' = disk
              /\ (returned' = "key") = Holds(user_wallets, u, slot_name, network)]_vars

\* the word "clear" in any letter case
IsClear(label) ==
    /\ Len(label) = 5
    /\ label[1] \in {"c", "C"}
    /\ label[2] \in {"l", "L"}
    /\ label[3] \in {"e", "E"}
    /\ label[4] \in {"a", "A"}
    /\ label[5] \in {"r", "R"}

\* the first n characters of a label
Prefix(label, n) ==
    [i \in 1..(IF Len(label) < n THEN Len(label) ELSE n) |-> label[i]]

C16_OmittedSlotIsPrimary ==
    [][/\ last' = "create_wallet" =>
             \A u \in Users, a \in {c \in CreateArgs : c[2] = None} :
                CreateWallet(u, a[1], a[2], a[3]) =>
                   LET primary == get_primary_wallet(user_wallets, u)
                       r == create_wallet(user_wallets, u, a[1], a[2], a[3])
                   IN  /\ r.ret = "ok" => r.slot = primary
                       /\ Holds(get_user_data(user_wallets, u), u, primary, a[1]) =>
                             r.ret # "ok"
       /\ (last' = "assign_wallet_to_user" /\ args'[3] = None /\ returned' = "ok") =>
             LET u == args'[1]
                 primary == bot_get_primary_wallet(get_user_data(user_wallets, u), u)
             IN  /\ Holds(user_wallets', u, primary, args'[2])
                 /\ ~Holds(get_user_data(user_wallets, u), u, primary, args'[2])]_vars

\* C17: import_wallet rejects every seed phrase whose word count is neither
\* 12 nor 24, and the rejected call writes no ChainWallet into any slot.
C17_WordCountChecked ==
    [][last' = "import_wallet" =>
          \A u \in Users, a \in {i \in ImportArgs : word_count(i[2]) \notin {12, 24}} :
             ImportWallet(u, a[1], a[2], a[3]) =>
                /\ returned' # "ok"
                /\ \A s \in SlotNames, n \in Chains :
                      Holds(user_wallets', u, s, n) =>
                         /\ Holds(user_wallets, u, s, n)
                         /\ WalletAt(user_wallets', u, s, n) = WalletAt(user_wallets, u, s, n)]_vars

\* the ChainWallet records of a store or document: those in the slots and
\* those of the legacy maps
ChainWallets(uw) ==
    UNION {{uw[u].wallet_slots[s].chains[n] :
               n \in DOMAIN uw[u].wallet_slots[s].chains} :
           <<u, s>> \in {p \in (DOMAIN uw) \X SlotNames :
                           /\ uw[p[1]].has_slots
                           /\ p[2] \in DOMAIN uw[p[1]].wallet_slots}}
    \cup
    UNION {{uw[u].wallets[n] : n \in DOMAIN uw[u].wallets} : u \in DOMAIN uw}

\* C18: in the persisted document a plaintext seed phrase stands only in
\* ChainWallet records with imported = true; the wallets written by
\* create_wallet and assign_wallet_to_user carry no seed phrase.
C18_SeedOnlyImported ==
    \A w \in ChainWallets(disk) : w.seed_phrase # None => w.imported

\* C19: no wallet operation puts a plaintext seed phrase or private key on
\* a channel other than the reply to the owning user: no message sent to
\* the notification channel carries one.
C19_NoSecretOnChannel ==
    \A m \in admin_channel :
       /\ "seed_phrase" \notin DOMAIN m
       /\ "private_key" \notin DOMAIN m

\* the address is the placeholder text of _derive_stacks
IsPlaceholder(address) == address[1] = "STACKS_"

\* C20: for STACKS, whose address encoding is not implemented, the result
\* of the derivation is marked as partial and carries no address, so that
\* create_wallet and import_wallet never store a placeholder string as the
\* address of a ChainWallet.
C20_NoPlaceholderAddress ==
    \A w \in ChainWallets(user_wallets) : ~IsPlaceholder(w.address)

\* the calls of _ed25519_derive_path made so far
PathCalls == {derive_log[i] : i \in {j \in 1..Len(derive_log) :
                                      derive_log[j].fn = "_ed25519_derive_path"}}

\* the calls of derive_address_from_seed made so far
DeriveCalls == {i \in 1..Len(derive_log) : derive_log[i].fn = "derive_address_from_seed"}

\* the path has a segment that is a number without a trailing '
HasNonHardened(path) ==
    \E i \in 1..Len(path.segments) :
        ~path.segments[i].empty /\ ~path.segments[i].hardened

\* C21: the ed25519 path derivation rejects every path that has a segment
\* that is not hardened: the call raises an error and returns no key.
C21_NonHardenedRejected ==
    \A c \in PathCalls : HasNonHardened(c.path) => c.out.raised # None

\* C22: for one seed phrase, the derivations at index 0 on two different
\* supported chains share neither the private key nor the address; so the
\* ETH and BSC derivations of a seed phrase differ in both.
C22_ChainsIsolated ==
    \A i, j \in DeriveCalls :
       LET c == derive_log[i]
           d == derive_log[j]
       IN  (/\ c.seed_phrase = d.seed_phrase
            /\ c.network # d.network
            /\ c.out # {}
            /\ d.out # {}) =>
              \A w \in c.out, x \in d.out :
                 /\ w.private_key # x.private_key
                 /\ w.address # x.address

RECURSIVE slip10_node(_, _, _)
slip10_node(seed, segments, n) ==
    LET I == IF n = 0
             THEN <<"HMAC-SHA512", "ed25519 seed", seed>>
             ELSE LET parent == slip10_node(seed, segments, n - 1)
                  IN  <<"HMAC-SHA512", parent.chain_code,
                        <<"00", parent.key, <<"be32", 1, segments[n].low>>>>>>
    IN  [key |-> <<"[:32]", I>>, chain_code |-> <<"[32:]", I>>]

\* the path starts with m/ and each segment is a number below 2^31 with a
\* trailing '
AllHardened(path) ==
    /\ path.starts_with_m
    /\ \A i \in 1..Len(path.segments) :
          /\ ~path.segments[i].empty
          /\ path.segments[i].hardened
          /\ path.segments[i].high = 0

\* C24: for every seed and every all-hardened path, _ed25519_derive_path
\* returns the key of the SLIP-0010 reference: the master key and chain code
\* are the halves of HMAC-SHA512 keyed "ed25519 seed" over the seed, each
\* segment replaces them with the halves of HMAC-SHA512 keyed with the chain
\* code over 0x00 || key || be32(index + 0x80000000), and the final key is
\* returned.
C24_EqualsSlip10 ==
    \A c \in PathCalls :
       AllHardened(c.path) =>
          /\ c.out.raised = None
          /\ c.out.key = slip10_node(seed_bytes(c.seed_phrase), c.path.segments,
                                     Len(c.path.segments)).key

\* C24 witness: the Solana path m/44'/501'/0'/0' was derived and gave a key.
C24_Witness ==
    \E c \in PathCalls :
       /\ c.path = SolanaPath
       /\ AllHardened(c.path)
       /\ c.out.raised = None
       /\ c.out.key # <<>>

\* C25: migrating a legacy profile {wallets: W} gives a slot profile with
\* primary_wallet = wallet1, exactly max_wallet_slots_per_user slots named
\* wallet1..walletN, wallet1 primary and holding exactly the chain wallets of
\* W, and every other slot empty and not primary.
C25_MigrationResult ==
    [][\A u \in Users :
          (last' = "get_user_data" /\ migrations'[u] = migrations[u] + 1) =>
             LET W == user_wallets[u].wallets
                 new_data == user_wallets'[u]
             IN  /\ new_data.has_slots
                 /\ ~new_data.has_wallets
                 /\ new_data.primary_wallet = WalletName(1)
                 /\ DOMAIN new_data.wallet_slots =
                       {WalletName(i) : i \in 1..max_wallet_slots_per_user}
                 /\ Cardinality(DOMAIN new_data.wallet_slots) = max_wallet_slots_per_user
                 /\ new_data.wallet_slots[WalletName(1)].is_primary
                 /\ new_data.wallet_slots[WalletName(1)].chains = W
                 /\ \A s \in DOMAIN new_data.wallet_slots \ {WalletName(1)} :
                       /\ new_data.wallet_slots[s].chains = EmptyMap
                       /\ ~new_data.wallet_slots[s].is_primary]_vars

\* C25 witness: get_user_data has just migrated a legacy profile that held a
\* chain wallet.
C25_Witness ==
    \E u \in DOMAIN user_wallets :
        /\ ops = 1
        /\ last = "get_user_data"
        /\ migrations[u] = 1
        /\ legacy0[u] # EmptyMap
        /\ user_wallets[u].wallet_slots[WalletName(1)].chains = legacy0[u]

\* the chains map of a slot as the program holds it: the slot's map, the
\* legacy 'wallets' map for wallet1 of a profile not migrated yet, and the
\* empty map for a slot that is absent
SlotChains(uw, u, slot_name) ==
    IF u \notin DOMAIN uw THEN EmptyMap
    ELSE IF uw[u].has_slots
    THEN IF slot_name \in DOMAIN uw[u].wallet_slots
         THEN uw[u].wallet_slots[slot_name].chains
         ELSE EmptyMap
    ELSE IF uw[u].has_wallets /\ slot_name = WalletName(1)
    THEN uw[u].wallets
    ELSE EmptyMap

\* the slots of a user's profile whose chains map is empty, by number; a
\* legacy profile has the slots wallet1..walletN, its wallets in wallet1
EmptySlots(uw, u) ==
    IF u \in DOMAIN uw /\ (uw[u].has_slots \/ uw[u].has_wallets)
    THEN {i \in 1..Len(WalletNames) :
             /\ \/ uw[u].has_slots /\ WalletName(i) \in DOMAIN uw[u].wallet_slots
                \/ ~uw[u].has_slots /\ WalletName(i) \in ConfiguredSlots
             /\ DOMAIN SlotChains(uw, u, WalletName(i)) = {}}
    ELSE {}

\* the step is a call of create_wallet or import_wallet without slot_name
AutoSlotStep ==
    /\ last' \in {"create_wallet", "import_wallet"}
    /\ Len(args') = 3
    /\ args'[3] = None

\* C26: create_wallet and import_wallet called without slot_name write only
\* into the first slot whose chains map was empty before the call, so they
\* never overwrite a ChainWallet; when the user has no empty slot or no
\* profile the call returns None and adds no wallet.
C26_AutoSlotNeverOverwrites ==
    [][AutoSlotStep =>
         LET u == args'[1]
             network == args'[2]
             empty_before == EmptySlots(user_wallets, u)
         IN  IF returned' = "ok"
             THEN \E i \in empty_before :
                     /\ \A j \in empty_before : i <= j
                     /\ DOMAIN SlotChains(user_wallets', u, WalletName(i)) = {network}
                     /\ \A v \in Users, s \in SlotNames :
                           <<v, s>> # <<u, WalletName(i)>> =>
                              SlotChains(user_wallets', v, s) = SlotChains(user_wallets, v, s)
             ELSE \A v \in Users, s \in SlotNames :
                     SlotChains(user_wallets', v, s) = SlotChains(user_wallets, v, s)]_vars

\* C26 witness: a user whose slots all hold a wallet called create_wallet or
\* import_wallet without slot_name; the call returned None.
C26_Witness ==
    /\ last \in {"create_wallet", "import_wallet"}
    /\ Len(args) = 3
    /\ args[3] = None
    /\ returned = "no_slot"
    /\ ops = 1
    /\ args[1] \in DOMAIN user_wallets
    /\ user_wallets[args[1]].has_slots
    /\ migrations[args[1]] = 0
    /\ \A s \in ConfiguredSlots :
          DOMAIN user_wallets[args[1]].wallet_slots[s].chains # {}

\* a call without slot_name filled the last empty slot of a profile
C26_WitnessFilled ==
    /\ last \in {"create_wallet", "import_wallet"}
    /\ Len(args) = 3
    /\ args[3] = None
    /\ returned = "ok"
    /\ ops = 1
    /\ EmptySlots(user_wallets, args[1]) = {}

\* the step is a call of delete_wallet_slot
DeleteStep ==
    /\ last' = "delete_wallet_slot"
    /\ Len(args') = 2

\* what delete_wallet_slot(u, slot_name) does to the store base, read on
\* the store after the call
DeleteEffect(base, after, u, slot_name) ==
    IF /\ u \in DOMAIN base
       /\ base[u].has_slots
       /\ slot_name \in DOMAIN base[u].wallet_slots
    THEN /\ returned' = "True"
         /\ DOMAIN after = DOMAIN base
         /\ \A v \in DOMAIN base \ {u} : after[v] = base[v]
         /\ after[u].has_slots
         /\ DOMAIN after[u].wallet_slots = DOMAIN base[u].wallet_slots
         /\ after[u].wallet_slots[slot_name].chains = EmptyMap
         /\ after[u].wallet_slots[slot_name].label = NoLabel
         /\ after[u].wallet_slots[slot_name].created_at = None
         /\ \A t \in DOMAIN base[u].wallet_slots \ {slot_name} :
               /\ after[u].wallet_slots[t].chains = base[u].wallet_slots[t].chains
               /\ after[u].wallet_slots[t].label = base[u].wallet_slots[t].label
         /\ IF base[u].primary_wallet = slot_name
            THEN /\ after[u].primary_wallet = WalletName(1)
                 /\ after[u].wallet_slots[WalletName(1)].is_primary
            ELSE after[u].primary_wallet = base[u].primary_wallet
    ELSE /\ returned' = "False"
         /\ after = base

\* C27 as stated: delete_wallet_slot on an existing slot resets that slot
\* only, leaves the chains and labels of the other slots and the other
\* users' profiles unchanged and moves the primary to wallet1 if the cleared
\* slot was the primary; for an unknown slot or a user without wallet_slots
\* it returns False and changes nothing.
C27_DeleteFrame ==
    [][DeleteStep =>
         /\ DeleteEffect(user_wallets, user_wallets', args'[1], args'[2])
         /\ returned' = "False" => disk' = disk]_vars

\* C27: delete_wallet_slot first migrates a legacy profile, as get_user_data
\* does; on the profile so obtained it resets an existing slot only, leaves
\* the chains and labels of the other slots and the other users' profiles
\* unchanged and moves the primary to wallet1 if the cleared slot was the
\* primary; for an unknown slot or a user without profile it returns False
\* and changes nothing but that migration.
C27_DeleteFrameAfterMigration ==
    [][DeleteStep =>
         /\ DeleteEffect(get_user_data(user_wallets, args'[1]), user_wallets',
                         args'[1], args'[2])
         /\ (returned' = "False" /\ ~needs_migration(user_wallets, args'[1])) =>
               disk' = disk]_vars

\* C27 witness: a slot of a profile was cleared while the profile's other
\* slots hold wallets and wallet1 has a label.
C27_Witness ==
    /\ last = "delete_wallet_slot"
    /\ Len(args) = 2
    /\ returned = "True"
    /\ args[2] = WalletName(2)
    /\ DOMAIN user_wallets[args[1]].wallet_slots[WalletName(2)].chains = {}
    /\ DOMAIN user_wallets[args[1]].wallet_slots[WalletName(1)].chains # {}
    /\ DOMAIN user_wallets[args[1]].wallet_slots[WalletName(3)].chains # {}
    /\ user_wallets[args[1]].wallet_slots[WalletName(1)].label # NoLabel

\* the primary slot wallet2 of a profile was cleared: wallet1 is the primary
C27_WitnessPrimary ==
    /\ last = "delete_wallet_slot"
    /\ Len(args) = 2
    /\ returned = "True"
    /\ ops = 2
    /\ args[2] = WalletName(2)
    /\ migrations[args[1]] = 0
    /\ legacy0[args[1]] = EmptyMap
    /\ args[1] # 1
    /\ \A s \in ConfiguredSlots : DOMAIN user_wallets[args[1]].wallet_slots[s].chains = {}
    /\ user_wallets[args[1]].primary_wallet = WalletName(1)
    /\ user_wallets[args[1]].wallet_slots[WalletName(1)].is_primary

\* the step is a call of create_wallet or import_wallet
CreateOrImportStep ==
    /\ last' \in {"create_wallet", "import_wallet"}
    /\ Len(args') = 3

\* C28: whenever create_wallet or import_wallet fails (unsupported chain,
\* phrase rejected by the derivation, seed generation failure, no slot
\* available) it returns None, and that call adds, removes or changes no
\* ChainWallet in any slot of any user.
C28_FailureChangesNoWallet ==
    [][CreateOrImportStep =>
         /\ args'[2] \notin Networks => returned' # "ok"
         /\ returned' # "ok" =>
               /\ returned' \in {"no_slot", "seed_fail", "derive_fail"}
               /\ \A v \in Users, s \in SlotNames :
                     SlotChains(user_wallets', v, s) = SlotChains(user_wallets, v, s)]_vars

\* C28 witness: a call of create_wallet or import_wallet by a user who holds
\* wallets failed in the derivation.
C28_Witness ==
    /\ last \in {"create_wallet", "import_wallet"}
    /\ Len(args) = 3
    /\ returned = "derive_fail"
    /\ \E s \in SlotNames : DOMAIN SlotChains(user_wallets, args[1], s) # {}

\* C29: when persisting the store fails during a mutating DataManager
\* operation, the operation reports failure and the store in memory is the
\* same as before the operation.
C29_FailedSaveRollsBack ==
    [][last' = "save_interrupted" =>
         /\ returned' = "False"
         /\ user_wallets' = user_wallets]_vars

----------------------------------------------------------------------------
(* LimitOrderService *)

\* two token addresses that agree on their first 8 characters
TokenA == <<"S", "o", "1", "1", "1", "1", "1", "1", "A">>
TokenB == <<"S", "o", "1", "1", "1", "1", "1", "1", "B">>

\* f"limit_{user_id}_{token_address[:8]}_{int(datetime.datetime.now().timestamp())}"
order_id_of(user_id, token_address, timestamp) ==
    <<"limit", user_id, SubSeq(token_address, 1, 8), timestamp>>

\* <<user_id, token_address, order_type, trigger_value>> of create_limit_order
CreateOrderArgs ==
    {<<1, TokenA, "price", 1>>, <<1, TokenB, "market_cap", 1>>, <<2, TokenA, "price", 1>>}

\* <<user_id, order_id>> of cancel_order and delete_order: the user's own
\* orders and an order of another user
CancelArgs ==
    {<<1, order_id_of(1, TokenA, 0)>>, <<1, order_id_of(1, TokenA, MaxTime)>>,
     <<2, order_id_of(1, TokenA, 0)>>}

DeleteArgs == {<<1, order_id_of(1, TokenA, 0)>>}

\* order_id of mark_order_executed and mark_order_failed
ExecutedArgs == {order_id_of(1, TokenA, 0), order_id_of(2, TokenA, 0)}
FailedArgs == {order_id_of(1, TokenA, 0)}

\* <<current_price, current_market_cap>> of should_execute_order
Quotes == {<<0, 2>>, <<2, 0>>}

\* the order create_limit_order builds; serial numbers the order objects in
\* the order of their creation
new_order(user_id, token_address, order_type, trigger_value, timestamp, serial) ==
    [order_id |-> order_id_of(user_id, token_address, timestamp),
     user_id |-> user_id,
     token_address |-> token_address,
     order_type |-> order_type,
     trigger_value |-> trigger_value,
     status |-> "active",
     serial |-> serial]

create_limit_order(os, user_id, token_address, order_type, trigger_value, timestamp, serial) ==
    LET order == new_order(user_id, token_address, order_type, trigger_value,
                           timestamp, serial)
        user_orders == IF user_id \in DOMAIN os THEN os[user_id] ELSE <<>>
    IN  Put(os, user_id, Append(user_orders, order))

\* the positions of a list whose order has the id and is active
ActiveMatches(user_orders, order_id) ==
    {i \in 1..Len(user_orders) :
        user_orders[i].order_id = order_id /\ user_orders[i].status = "active"}

\* the positions of a list whose order has the id, whatever its status
IdMatches(user_orders, order_id) ==
    {i \in 1..Len(user_orders) : user_orders[i].order_id = order_id}

Lowest(S) == CHOOSE i \in S : \A j \in S : i <= j

\* the loop of cancel_order, mark_order_executed and mark_order_failed over
\* one list: the first order with the id that passes the status test gets the
\* status, and the loop returns
set_first(os, user_id, matches, status) ==
    IF matches = {}
    THEN [orders |-> os, ret |-> "False"]
    ELSE [orders |-> [os EXCEPT ![user_id][Lowest(matches)].status = status],
          ret |-> "True"]

cancel_order(os, user_id, order_id) ==
    IF user_id \notin DOMAIN os
    THEN [orders |-> os, ret |-> "False"]
    ELSE set_first(os, user_id, ActiveMatches(os[user_id], order_id), "cancelled")

\* the loop over self.orders.values(): the lists are visited in the order of
\* the dict; the first list holding an active order with the id is the one
\* changed
mark_order(os, order_id, status) ==
    LET holding == {u \in DOMAIN os : ActiveMatches(os[u], order_id) # {}}
    IN  IF holding = {}
        THEN [orders |-> os, ret |-> "False"]
        ELSE LET u == Lowest(holding)
             IN  set_first(os, u, ActiveMatches(os[u], order_id), status)

\* variant: the status of the order is not tested
mark_order_executed_any(os, order_id) ==
    LET holding == {u \in DOMAIN os : IdMatches(os[u], order_id) # {}}
    IN  IF holding = {}
        THEN [orders |-> os, ret |-> "False"]
        ELSE LET u == Lowest(holding)
             IN  set_first(os, u, IdMatches(os[u], order_id), "executed")

mark_order_executed(os, order_id) == mark_order(os, order_id, "executed")

mark_order_failed(os, order_id) == mark_order(os, order_id, "failed")

should_execute_order(order, current_price, current_market_cap) ==
    IF order.status # "active" THEN FALSE
    ELSE IF order.order_type = "price" THEN current_price >= order.trigger_value
    ELSE IF order.order_type = "market_cap" THEN current_market_cap >= order.trigger_value
    ELSE FALSE

delete_order(os, user_id, order_id) ==
    IF user_id \notin DOMAIN os
    THEN [orders |-> os, ret |-> "False"]
    ELSE LET Kept(o) == o.order_id # order_id
             kept == SelectSeq(os[user_id], Kept)
         IN  [orders |-> [os EXCEPT ![user_id] = kept],
              ret |-> IF Len(kept) < Len(os[user_id]) THEN "True" ELSE "False"]

\* one more call of the service
OrderDispatched ==
    /\ ops < MaxOrderOps
    /\ ops' = ops + 1
    /\ UNCHANGED <<user_wallets, disk, torn, admin_channel, calls, assigned_log, legacy0,
                   migrations, derive_log>>

\* the call returned r: the orders are replaced and, if the call changed
\* them, saved
OrderDone(op, r, a) ==
    /\ orders' = r.orders
    /\ orders_file' = IF r.ret = "True" THEN r.orders ELSE orders_file
    /\ last' = op
    /\ returned' = r.ret
    /\ args' = a
    /\ UNCHANGED <<now, order_count>>

CreateLimitOrder(user_id, token_address, order_type, trigger_value) ==
    /\ OrderDispatched
    /\ orders' = create_limit_order(orders, user_id, token_address, order_type,
                                    trigger_value, now, order_count + 1)
    /\ orders_file' = orders'
    /\ order_count' = order_count + 1
    /\ last' = "create_limit_order"
    /\ returned' = "order"
    /\ args' = <<user_id, order_id_of(user_id, token_address, now)>>
    /\ now' = now

CancelOrder(user_id, order_id) ==
    /\ OrderDispatched
    /\ OrderDone("cancel_order", cancel_order(orders, user_id, order_id),
                 <<user_id, order_id>>)

MarkOrderExecuted(order_id) ==
    /\ OrderDispatched
    /\ OrderDone("mark_order_executed", mark_order_executed(orders, order_id), <<order_id>>)

MarkOrderFailed(order_id) ==
    /\ OrderDispatched
    /\ OrderDone("mark_order_failed", mark_order_failed(orders, order_id), <<order_id>>)

DeleteOrder(user_id, order_id) ==
    /\ OrderDispatched
    /\ OrderDone("delete_order", delete_order(orders, user_id, order_id),
                 <<user_id, order_id>>)

ShouldExecuteOrder(user_id, i, current_price, current_market_cap) ==
    /\ OrderDispatched
    /\ user_id \in DOMAIN orders
    /\ i \in 1..Len(orders[user_id])
    /\ last' = "should_execute_order"
    /\ returned' = IF should_execute_order(orders[user_id][i], current_price,
                                           current_market_cap)
                   THEN "True" ELSE "False"
    /\ args' = <<user_id, i>>
    /\ UNCHANGED <<orders, orders_file, now, order_count>>

\* a second passes
Tick ==
    /\ OrderDispatched
    /\ now < MaxTime
    /\ now' = now + 1
    /\ last' = "tick"
    /\ returned' = None
    /\ args' = <<>>
    /\ UNCHANGED <<orders, orders_file, order_count>>

\* the process stops and LimitOrderService.__init__ loads the document
RestartOrders ==
    /\ OrderDispatched
    /\ orders' = orders_file
    /\ last' = "restart"
    /\ returned' = None
    /\ args' = <<>>
    /\ UNCHANGED <<orders_file, now, order_count>>

InitOrders ==
    /\ Init
    /\ DOMAIN user_wallets = {}

NextOrders ==
    \/ \E a \in CreateOrderArgs : CreateLimitOrder(a[1], a[2], a[3], a[4])
    \/ \E a \in CancelArgs : CancelOrder(a[1], a[2])
    \/ \E id \in ExecutedArgs : MarkOrderExecuted(id)
    \/ \E id \in FailedArgs : MarkOrderFailed(id)
    \/ \E a \in DeleteArgs : DeleteOrder(a[1], a[2])
    \/ \E u \in Users, i \in 1..MaxOrderOps, q \in Quotes : ShouldExecuteOrder(u, i, q[1], q[2])
    \/ Tick
    \/ RestartOrders

SpecOrders == InitOrders /\ [][NextOrders]_vars

\* the order objects of the service
OrderRecords(os) == UNION {{os[u][i] : i \in 1..Len(os[u])} : u \in DOMAIN os}

\* the order object created as the n-th
OrderOf(os, n) == CHOOSE o \in OrderRecords(os) : o.serial = n

Serials(os) == {o.serial : o \in OrderRecords(os)}

\* the order objects whose status a step changes
Changed == {n \in Serials(orders) \cap Serials(orders') :
               OrderOf(orders', n).status # OrderOf(orders, n).status}

\* the step is a call of cancel_order, mark_order_executed or mark_order_failed
StatusStep == last' \in {"cancel_order", "mark_order_executed", "mark_order_failed"}

\* the order_id the call was given
TargetId == args'[Len(args')]

\* the orders the call looks at: those of the given user for cancel_order,
\* all orders for mark_order_executed and mark_order_failed
InScope ==
    IF last' = "cancel_order"
    THEN {o \in OrderRecords(orders) : o.user_id = args'[1]}
    ELSE OrderRecords(orders)

\* a status only moves from active to executed, cancelled or failed; a call
\* changes at most one order and removes none; cancel_order changes orders of
\* the given user only; should_execute_order is false for an order that is
\* not active
StatusMonotone ==
    /\ \A n \in Changed :
          /\ OrderOf(orders, n).status = "active"
          /\ OrderOf(orders', n).status \in {"executed", "cancelled", "failed"}
    /\ StatusStep =>
          /\ Cardinality(Changed) <= 1
          /\ Serials(orders') = Serials(orders)
          /\ last' = "cancel_order" =>
                \A n \in Changed : OrderOf(orders, n).user_id = args'[1]
    /\ last' = "should_execute_order" =>
          (orders'[args'[1]][args'[2]].status # "active" => returned' = "False")

\* C30 as stated: a limit order's status only moves from active to one of
\* executed, cancelled or failed and never changes again; cancel_order,
\* mark_order_executed and mark_order_failed return False and change nothing
\* for an order that is not active; each call changes at most one order;
\* cancel_order only affects orders of the given user; should_execute_order
\* is false for every order that is not active.
C30_StatusTransitions ==
    [][/\ StatusMonotone
       /\ StatusStep =>
             ((\E o \in InScope : o.order_id = TargetId /\ o.status # "active") =>
                 /\ returned' = "False"
                 /\ orders' = orders)]_vars

\* C30: the same, with the rejection stated for the order id: the three
\* calls return False and change nothing when no active order in their scope
\* has the id, and otherwise return True and move exactly one active order
\* with that id; order ids are not unique, so a call on the id of an order
\* that is not active can still change another order with the same id.
C30_StatusTransitionsById ==
    [][/\ StatusMonotone
       /\ StatusStep =>
             IF \E o \in InScope : o.order_id = TargetId /\ o.status = "active"
             THEN /\ returned' = "True"
                  /\ Cardinality(Changed) = 1
                  /\ \A n \in Changed : OrderOf(orders, n).order_id = TargetId
             ELSE /\ returned' = "False"
                  /\ orders' = orders]_vars

\* C30 witness: mark_order_executed was called on the id of a cancelled
\* order and returned False.
C30_Witness ==
    /\ last = "mark_order_executed"
    /\ returned = "False"
    /\ Len(args) = 1
    /\ \E o \in OrderRecords(orders) : o.order_id = args[1] /\ o.status = "cancelled"

====
